---------------------------- MODULE Spec2Model ----------------------------
(***************************************************************************)
(* Driver lifecycle coordination of driver.c: the driver_ctl entry point,  *)
(* init_drivers, uninit_drivers, driver_adjust_system_rates and            *)
(* driver_set_nonblock_state, over the per-category backend subsystems.    *)
(*                                                                         *)
(* The backends (video_driver_ctl, audio_driver_ctl, ...) live outside     *)
(* driver.c.  The model keeps, per category, the two facts driver.c reads  *)
(* or the lifecycle is about (the ownership flag and whether a live handle *)
(* exists) and records every command driver.c sends to a backend in `log`, *)
(* in the order sent, together with the event commands it raises and its   *)
(* entries into driver_adjust_system_rates and SET_NONBLOCK_STATE.  Pure   *)
(* queries (OWNS_DRIVER, IS_ACTIVE, IS_NONBLOCK_STATE,                     *)
(* video_driver_get_ptr) read the variables and are not logged.  The build *)
(* has HAVE_MENU defined.                                                  *)
(***************************************************************************)
EXTENDS Integers, Sequences, FiniteSets, TLC

VARIABLES
    own,            \* [Cat -> BOOLEAN]  *_CTL_OWNS_DRIVER of each backend
    alloc,          \* [Cat -> BOOLEAN]  the backend has a live handle
    camActive,      \* RARCH_CAMERA_CTL_IS_ACTIVE
    locActive,      \* RARCH_LOCATION_CTL_IS_ACTIVE
    videoActive,    \* RARCH_DISPLAY_CTL_IS_ACTIVE
    inputNonblock,  \* RARCH_INPUT_CTL_IS_NONBLOCK_STATE
    vsync,          \* settings->video.vsync
    forceNonblock,  \* system->force_nonblock
    lastCmd,        \* the last driver_ctl command: [cmd, data]
    ret,            \* its boolean result
    log,            \* the backend commands it issued, in order
    stage,          \* position in the INIT, UNINIT, INIT sequence (SpecReinit)
    nInit,          \* [Cat -> Nat] init calls issued in that sequence
    nRelease,       \* [Cat -> Nat] deinit and destroy-data calls issued in it
    videoNonblock,  \* the nonblocking mode last applied to the video backend
    audioNonblock,  \* the nonblocking mode last applied to the audio backend
    refreshRate,    \* the monitor refresh rate (video_monitor_set_refresh_rate)
    avInfo,         \* *video_viewport_get_system_av_info()
    recording,      \* recording_driver_get_data_ptr() is non-null
    crashed,        \* the process has died on an invalid memory access
    label,          \* the category label given to the find_* functions
    registry,       \* that category's backends: the sequence of their names
    name,           \* the caller's buffer s: the selected backend's name
    len,            \* the size of that buffer
    selOp,          \* the last find_* function called
    selRet,         \* its boolean result
    selIdx,         \* the last result of find_driver_index
    fromFound       \* the selection started from a name find_driver_index finds

vars == << own, alloc, camActive, locActive, videoActive, inputNonblock,
           vsync, forceNonblock,
           lastCmd, ret, log, stage, nInit, nRelease,
           videoNonblock, audioNonblock, refreshRate, avInfo, recording,
           crashed, label, registry, name, len, selOp, selRet, selIdx,
           fromFound >>

envVars == << camActive, locActive, videoActive, inputNonblock, vsync,
              forceNonblock >>

seqVars == << stage, nInit, nRelease >>

cfgVars == << refreshRate, avInfo, recording, crashed >>

selVars == << label, registry, name, len, selOp, selRet, selIdx, fromFound >>

\* What the commands of INIT, UNINIT and DEINIT leave alone.
restVars == << seqVars, cfgVars, selVars >>

-----------------------------------------------------------------------------
(* Categories and the driver bitmask *)

DRIVER_AUDIO    == "audio"
DRIVER_VIDEO    == "video"
DRIVER_INPUT    == "input"
DRIVER_CAMERA   == "camera"
DRIVER_LOCATION == "location"
DRIVER_MENU     == "menu"

Cat == { DRIVER_AUDIO, DRIVER_VIDEO, DRIVER_INPUT, DRIVER_CAMERA,
         DRIVER_LOCATION, DRIVER_MENU }

NonMenu == Cat \ { DRIVER_MENU }

\* The aggregate VIDEO|INPUT mask tested by uninit_drivers.
DRIVERS_VIDEO_INPUT == { DRIVER_VIDEO, DRIVER_INPUT }

\* The bitmask the command layer reinitialises: every driver.
DRIVERS_CMD_ALL == Cat

\* A bitmask is the set of its category bits; `flags & M` is Has(flags, M).
Masks == SUBSET Cat

Has(flags, m) == flags \cap m # {}

\* A null payload pointer: a value apart from every bitmask.
NULL == { "NULL" }

-----------------------------------------------------------------------------
(* Backend subsystems, at their interface *)

Emit(s, drv, op) == [s EXCEPT !.log = Append(@, << drv, op >>)]

\* A command carrying a boolean argument.
EmitArg(s, drv, op, arg) == [s EXCEPT !.log = Append(@, << drv, op, arg >>)]

unset_own_driver(s, c) ==
    [Emit(s, c, "UNSET_OWN_DRIVER") EXCEPT !.own[c] = FALSE]

set_own_driver(s, c) ==
    [Emit(s, c, "SET_OWN_DRIVER") EXCEPT !.own[c] = TRUE]

\* init(category): the backend's handle becomes live.
backend_init(s, c) ==
    [Emit(s, c, "INIT") EXCEPT !.alloc[c] = TRUE]

\* deinit(category): releases what the lifecycle holds of the backend; a
\* handle flagged externally owned is left alone.
backend_deinit(s, c) ==
    [Emit(s, c, "DEINIT") EXCEPT !.alloc[c] = @ /\ s.own[c]]

\* destroy_data(category): drops the live handle.
backend_destroy_data(s, c) ==
    [Emit(s, c, "DESTROY_DATA") EXCEPT !.alloc[c] = FALSE]

\* destroy(category): destroys the backend object.
backend_destroy(s, c) ==
    [Emit(s, c, "DESTROY") EXCEPT !.alloc[c] = FALSE]

\* RARCH_DISPLAY_CTL_SET_NONBLOCK_STATE with *toggle = b.
video_set_nonblock_state(s, b) ==
    EmitArg(s, DRIVER_VIDEO, "SET_NONBLOCK_STATE", b)

\* audio_driver_set_nonblocking_state(b).
audio_driver_set_nonblocking_state(s, b) ==
    EmitArg(s, DRIVER_AUDIO, "SET_NONBLOCKING_STATE", b)

\* event_command(EVENT_CMD_VIDEO_SET_NONBLOCKING_STATE): the command layer
\* puts the video backend in nonblocking mode.
event_video_set_nonblocking_state(s) ==
    Emit(s, "event", "VIDEO_SET_NONBLOCKING_STATE")

\* The video nonblocking mode after the commands of l, from mode v.
VideoNonblockAfter(l, v) ==
    LET I == { i \in DOMAIN l :
                 \/ l[i] = << "event", "VIDEO_SET_NONBLOCKING_STATE" >>
                 \/ (l[i][1] = DRIVER_VIDEO /\ l[i][2] = "SET_NONBLOCK_STATE") }
        k == CHOOSE i \in I : \A j \in I : j <= i
    IN  IF I = {} THEN v
        ELSE IF l[k][1] = "event" THEN TRUE ELSE l[k][3]

\* The audio nonblocking mode after the commands of l, from mode a.
AudioNonblockAfter(l, a) ==
    LET I == { i \in DOMAIN l :
                 l[i][1] = DRIVER_AUDIO /\ l[i][2] = "SET_NONBLOCKING_STATE" }
        k == CHOOSE i \in I : \A j \in I : j <= i
    IN  IF I = {} THEN a ELSE l[k][3]


-----------------------------------------------------------------------------
(* driver.c *)

\* Mutant: the video mode follows the input mode whatever vsync says.
driver_set_nonblock_state_ignores_vsync(s) ==
    LET enable == inputNonblock
        s1 == IF videoActive /\ s.alloc[DRIVER_VIDEO]
              THEN video_set_nonblock_state(s,
                       IF forceNonblock THEN TRUE ELSE enable)
              ELSE s
    IN  audio_driver_set_nonblocking_state(s1, enable)

\* driver_set_nonblock_state (driver.c:226-247)
driver_set_nonblock_state(s) ==
    LET enable == inputNonblock
        s1 == IF videoActive /\ s.alloc[DRIVER_VIDEO]
              THEN video_set_nonblock_state(s,
                       IF ~vsync \/ forceNonblock THEN TRUE ELSE enable)
              ELSE s
    IN  audio_driver_set_nonblocking_state(s1, enable)

\* driver_ctl(RARCH_DRIVER_CTL_SET_NONBLOCK_STATE, NULL) (driver.c:467-469)
ctl_set_nonblock_state(s) ==
    driver_set_nonblock_state(Emit(s, "driver", "SET_NONBLOCK_STATE"))

\* driver_adjust_system_rates (driver.c:201-216)
driver_adjust_system_rates(s) ==
    LET s0 == Emit(s, "driver", "ADJUST_SYSTEM_RATES")
        s1 == Emit(s0, DRIVER_AUDIO, "MONITOR_ADJUST_SYSTEM_RATES")
        s2 == Emit(s1, DRIVER_VIDEO, "MONITOR_ADJUST_SYSTEM_RATES")
    IN  IF ~s2.alloc[DRIVER_VIDEO] THEN s2
        ELSE IF forceNonblock THEN event_video_set_nonblocking_state(s2)
        ELSE ctl_set_nonblock_state(s2)

\* menu_update_libretro_info (driver.c:285-301); info is whether
\* RARCH_MENU_CTL_SYSTEM_INFO_GET yields a non-null record.
menu_update_libretro_info(s, info) ==
    LET s0 == Emit(s, DRIVER_MENU, "UPDATE_LIBRETRO_INFO")
    IN  IF ~info THEN s0
        ELSE Emit(Emit(s0, "event", "CORE_INFO_INIT"),
                  "event", "LOAD_CORE_PERSIST")

\* Mutant: the location flag is cleared on the camera bit.
init_unset_own_wrong_bit(s, flags) ==
    LET a1 == IF DRIVER_VIDEO \in flags
              THEN unset_own_driver(s, DRIVER_VIDEO) ELSE s
        a2 == IF DRIVER_AUDIO \in flags
              THEN unset_own_driver(a1, DRIVER_AUDIO) ELSE a1
        a3 == IF DRIVER_INPUT \in flags
              THEN unset_own_driver(a2, DRIVER_INPUT) ELSE a2
        a4 == IF DRIVER_CAMERA \in flags
              THEN unset_own_driver(a3, DRIVER_CAMERA) ELSE a3
    IN  IF DRIVER_CAMERA \in flags
        THEN unset_own_driver(a4, DRIVER_LOCATION) ELSE a4

\* Mutant: the camera flag is not cleared.
init_unset_own_keeps_camera(s, flags) ==
    LET a1 == IF DRIVER_VIDEO \in flags
              THEN unset_own_driver(s, DRIVER_VIDEO) ELSE s
        a2 == IF DRIVER_AUDIO \in flags
              THEN unset_own_driver(a1, DRIVER_AUDIO) ELSE a1
        a3 == IF DRIVER_INPUT \in flags
              THEN unset_own_driver(a2, DRIVER_INPUT) ELSE a2
    IN  IF DRIVER_LOCATION \in flags
        THEN unset_own_driver(a3, DRIVER_LOCATION) ELSE a3

\* init_drivers, the ownership flags (driver.c:313-322)
init_unset_own(s, flags) ==
    LET a1 == IF DRIVER_VIDEO \in flags
              THEN unset_own_driver(s, DRIVER_VIDEO) ELSE s
        a2 == IF DRIVER_AUDIO \in flags
              THEN unset_own_driver(a1, DRIVER_AUDIO) ELSE a1
        a3 == IF DRIVER_INPUT \in flags
              THEN unset_own_driver(a2, DRIVER_INPUT) ELSE a2
        a4 == IF DRIVER_CAMERA \in flags
              THEN unset_own_driver(a3, DRIVER_CAMERA) ELSE a3
    IN  IF DRIVER_LOCATION \in flags
        THEN unset_own_driver(a4, DRIVER_LOCATION) ELSE a4

\* init_drivers: by default the menu persists through driver reinits
\* (driver.c:324-327)
init_menu_own(s) == set_own_driver(s, DRIVER_MENU)

\* init_drivers, the video block (driver.c:332-346).  ctxReset is whether
\* the cache-context acknowledgement is clear and the core has a
\* context_reset callback.
init_video(s, flags, ctxReset) ==
    LET v1 == backend_init(Emit(s, DRIVER_VIDEO, "MONITOR_RESET"),
                           DRIVER_VIDEO)
        v2 == IF ctxReset THEN Emit(v1, "hw_render", "context_reset") ELSE v1
    IN  IF DRIVER_VIDEO \in flags
        THEN Emit(Emit(v2, DRIVER_VIDEO, "UNSET_VIDEO_CACHE_CONTEXT_ACK"),
                  "runloop", "SET_FRAME_TIME_LAST")
        ELSE s

\* init_drivers, audio, camera and location (driver.c:348-357)
init_audio_camera_location(s, flags) ==
    LET b1 == IF DRIVER_AUDIO \in flags
              THEN backend_init(s, DRIVER_AUDIO) ELSE s
        b2 == IF DRIVER_CAMERA \in flags /\ camActive
              THEN backend_init(b1, DRIVER_CAMERA) ELSE b1
    IN  IF DRIVER_LOCATION \in flags /\ locActive
        THEN backend_init(b2, DRIVER_LOCATION) ELSE b2

\* init_drivers, the menu (driver.c:359-367)
init_menu(s, flags, info) ==
    LET m1 == menu_update_libretro_info(s, info)
    IN  IF DRIVER_MENU \in flags
        THEN Emit(backend_init(m1, DRIVER_MENU), DRIVER_MENU, "CONTEXT_RESET")
        ELSE m1

\* Mutant: the nonblocking state is re-applied without asking the input
\* subsystem.
init_nonblock_always(s, flags) ==
    IF Has(flags, {DRIVER_VIDEO, DRIVER_AUDIO})
    THEN ctl_set_nonblock_state(s)
    ELSE s

\* init_drivers: keep the non-throttled state (driver.c:369-374)
init_nonblock(s, flags) ==
    IF Has(flags, {DRIVER_VIDEO, DRIVER_AUDIO}) /\ inputNonblock
    THEN ctl_set_nonblock_state(s)
    ELSE s

\* init_drivers (driver.c:311-375)
init_drivers(s, flags, ctxReset, info) ==
    LET a == init_menu_own(init_unset_own(s, flags))
        b == IF Has(flags, {DRIVER_VIDEO, DRIVER_AUDIO})
             THEN driver_adjust_system_rates(a) ELSE a
        c == init_video(b, flags, ctxReset)
        d == init_audio_camera_location(c, flags)
        e == init_menu(d, flags, info)
    IN  init_nonblock(e, flags)

\* Mutant: the menu is deinitialised without asking who owns it.
uninit_menu_unguarded(s, flags) ==
    IF DRIVER_MENU \notin flags THEN s
    ELSE backend_deinit(Emit(s, DRIVER_MENU, "CONTEXT_DESTROY"), DRIVER_MENU)

\* uninit_drivers, the menu (driver.c:387-394)
uninit_menu(s, flags) ==
    LET m0 == Emit(s, DRIVER_MENU, "CONTEXT_DESTROY")
    IN  IF DRIVER_MENU \notin flags THEN s
        ELSE IF ~m0.own[DRIVER_MENU] THEN backend_deinit(m0, DRIVER_MENU)
        ELSE m0

\* uninit_drivers, the location (driver.c:396-397)
uninit_location(s, flags) ==
    IF DRIVER_LOCATION \in flags /\ ~s.own[DRIVER_LOCATION]
    THEN backend_deinit(s, DRIVER_LOCATION) ELSE s

\* uninit_drivers, the camera (driver.c:399-400)
uninit_camera(s, flags) ==
    IF DRIVER_CAMERA \in flags /\ ~s.own[DRIVER_CAMERA]
    THEN backend_deinit(s, DRIVER_CAMERA) ELSE s

\* Mutant: the audio deinit is forgotten.
uninit_audio_skipped(s, flags) == s

\* uninit_drivers, the audio deinit (driver.c:402-403)
uninit_audio(s, flags) ==
    IF DRIVER_AUDIO \in flags THEN backend_deinit(s, DRIVER_AUDIO) ELSE s

\* Mutant: the video deinit is issued on any bit of the bitmask.
uninit_video_input_any_bit(s, flags) ==
    IF flags # {} THEN backend_deinit(s, DRIVER_VIDEO) ELSE s

\* uninit_drivers, the video deinit (driver.c:405-406)
uninit_video_input(s, flags) ==
    IF Has(flags, DRIVERS_VIDEO_INPUT)
    THEN backend_deinit(s, DRIVER_VIDEO) ELSE s

\* uninit_drivers, the handles (driver.c:408-415)
uninit_destroy_data(s, flags) ==
    LET u1 == IF DRIVER_VIDEO \in flags /\ ~s.own[DRIVER_VIDEO]
              THEN backend_destroy_data(s, DRIVER_VIDEO) ELSE s
        u2 == IF DRIVER_INPUT \in flags /\ ~u1.own[DRIVER_INPUT]
              THEN backend_destroy_data(u1, DRIVER_INPUT) ELSE u1
    IN  IF DRIVER_AUDIO \in flags /\ ~u2.own[DRIVER_AUDIO]
        THEN backend_destroy_data(u2, DRIVER_AUDIO) ELSE u2

\* Mutant: the camera is torn down before the location.
uninit_drivers_camera_first(s, flags) ==
    LET u1 == uninit_menu(s, flags)
        u2 == uninit_camera(u1, flags)
        u3 == uninit_location(u2, flags)
        u4 == uninit_audio(u3, flags)
        u5 == uninit_video_input(u4, flags)
    IN  uninit_destroy_data(u5, flags)

\* uninit_drivers (driver.c:385-416)
uninit_drivers(s, flags) ==
    LET u1 == uninit_menu(s, flags)
        u2 == uninit_location(u1, flags)
        u3 == uninit_camera(u2, flags)
        u4 == uninit_audio(u3, flags)
        u5 == uninit_video_input(u4, flags)
    IN  uninit_destroy_data(u5, flags)

\* Mutant: DEINIT spares the backends flagged externally owned.
ctl_deinit_spares_owned(s) ==
    LET D(x, c) == IF x.own[c] THEN x ELSE backend_destroy(x, c)
        d3 == D(D(D(s, DRIVER_VIDEO), DRIVER_AUDIO), DRIVER_INPUT)
        d6 == D(D(D(d3, DRIVER_MENU), DRIVER_LOCATION), DRIVER_CAMERA)
    IN  [s |-> Emit(d6, "libretro", "retro_uninit_libretro_cbs"),
         ret |-> FALSE]

\* Mutant: DEINIT forgets the camera.
ctl_deinit_no_camera(s) ==
    LET d1 == backend_destroy(s, DRIVER_VIDEO)
        d2 == backend_destroy(d1, DRIVER_AUDIO)
        d3 == backend_destroy(d2, DRIVER_INPUT)
        d4 == backend_destroy(d3, DRIVER_MENU)
        d5 == backend_destroy(d4, DRIVER_LOCATION)
    IN  [s |-> Emit(d5, "libretro", "retro_uninit_libretro_cbs"),
         ret |-> FALSE]

\* driver_ctl, case RARCH_DRIVER_CTL_DEINIT (driver.c:422-432)
ctl_deinit(s) ==
    LET d1 == backend_destroy(s, DRIVER_VIDEO)
        d2 == backend_destroy(d1, DRIVER_AUDIO)
        d3 == backend_destroy(d2, DRIVER_INPUT)
        d4 == backend_destroy(d3, DRIVER_MENU)
        d5 == backend_destroy(d4, DRIVER_LOCATION)
        d6 == backend_destroy(d5, DRIVER_CAMERA)
    IN  [s |-> Emit(d6, "libretro", "retro_uninit_libretro_cbs"),
         ret |-> FALSE]

\* driver_ctl, case RARCH_DRIVER_CTL_UNINIT (driver.c:433-440)
ctl_uninit(s, data) ==
    IF data = NULL THEN [s |-> s, ret |-> FALSE]
    ELSE [s |-> uninit_drivers(s, data), ret |-> TRUE]

\* Mutant: INIT reads the bitmask without the null check; what a null
\* pointer then yields is taken to be the empty bitmask.
ctl_init_unchecked(s, data, ctxReset, info) ==
    [s |-> init_drivers(s, IF data = NULL THEN {} ELSE data, ctxReset, info),
     ret |-> TRUE]

\* driver_ctl, case RARCH_DRIVER_CTL_INIT (driver.c:441-448)
ctl_init(s, data, ctxReset, info) ==
    IF data = NULL THEN [s |-> s, ret |-> FALSE]
    ELSE [s |-> init_drivers(s, data, ctxReset, info), ret |-> TRUE]

\* driver_ctl, case RARCH_DRIVER_CTL_INIT_PRE (driver.c:449-458)
ctl_init_pre(s) ==
    LET p1 == Emit(s, DRIVER_AUDIO, "FIND_DRIVER")
        p2 == Emit(p1, DRIVER_VIDEO, "FIND_DRIVER")
        p3 == Emit(p2, DRIVER_INPUT, "FIND_DRIVER")
        p4 == Emit(p3, DRIVER_CAMERA, "FIND_DRIVER")
        p5 == Emit(p4, DRIVER_LOCATION, "FIND_DRIVER")
    IN  [s |-> Emit(p5, DRIVER_MENU, "FIND_DRIVER"), ret |-> FALSE]

\* Mutant: SET_REFRESH_RATE notifies the audio timing monitor after the
\* rates are re-derived.
ctl_set_refresh_rate_notify_last(s) ==
    LET r1 == Emit(s, "video_monitor", "SET_REFRESH_RATE")
        r2 == driver_adjust_system_rates(r1)
    IN  [s |-> Emit(r2, DRIVER_AUDIO, "MONITOR_SET_REFRESH_RATE"),
         ret |-> FALSE]

\* driver_ctl, case RARCH_DRIVER_CTL_SET_REFRESH_RATE (driver.c:459-466),
\* once *hz has been read.
ctl_set_refresh_rate(s) ==
    LET r1 == Emit(s, "video_monitor", "SET_REFRESH_RATE")
        r2 == Emit(r1, DRIVER_AUDIO, "MONITOR_SET_REFRESH_RATE")
    IN  [s |-> driver_adjust_system_rates(r2), ret |-> FALSE]

\* event_command(EVENT_CMD_REINIT): the command layer takes every driver
\* down and up again through the lifecycle.
event_reinit(s, ctxReset, info) ==
    init_drivers(uninit_drivers(Emit(s, "event", "REINIT"), DRIVERS_CMD_ALL),
                 DRIVERS_CMD_ALL, ctxReset, info)

\* Mutant: the recording is started again without being stopped first.
driver_update_system_av_info_no_deinit(s, ctxReset, info) ==
    LET a1 == event_reinit(Emit(s, "av_info", "memcpy"), ctxReset, info)
        a2 == Emit(a1, "runloop", "msg_queue_push")
    IN  [s |-> IF recording THEN Emit(a2, "event", "RECORD_INIT") ELSE a1,
         ret |-> TRUE]

\* Mutant: the result reports whether a recording was restarted.
driver_update_system_av_info_ret_recording(s, ctxReset, info) ==
    LET a1 == event_reinit(Emit(s, "av_info", "memcpy"), ctxReset, info)
        a2 == Emit(a1, "runloop", "msg_queue_push")
        a3 == Emit(Emit(a2, "event", "RECORD_DEINIT"), "event", "RECORD_INIT")
    IN  [s |-> IF recording THEN a3 ELSE a1, ret |-> recording]

\* driver_update_system_av_info (driver.c:259-277), given a record to copy
driver_update_system_av_info(s, ctxReset, info) ==
    LET a1 == event_reinit(Emit(s, "av_info", "memcpy"), ctxReset, info)
        a2 == Emit(a1, "runloop", "msg_queue_push")
        a3 == Emit(Emit(a2, "event", "RECORD_DEINIT"), "event", "RECORD_INIT")
    IN  [s |-> IF recording THEN a3 ELSE a1, ret |-> TRUE]

\* driver_ctl, case RARCH_DRIVER_CTL_UPDATE_SYSTEM_AV_INFO (driver.c:470-476)
ctl_update_system_av_info(s, data, ctxReset, info) ==
    IF data = NULL THEN [s |-> s, ret |-> FALSE]
    ELSE driver_update_system_av_info(s, ctxReset, info)

\* Mutant: an unknown command reports success.
ctl_none_true(s) == [s |-> s, ret |-> TRUE]

\* driver_ctl, case RARCH_DRIVER_CTL_NONE and default (driver.c:477-482)
ctl_none(s) == [s |-> s, ret |-> FALSE]

-----------------------------------------------------------------------------
(* Strings: a string is the sequence of its characters *)

\* tolower
LowerCh(c) ==
    CASE c = "G" -> "g" [] c = "L" -> "l" [] c = "N" -> "n" [] c = "U" -> "u"
      [] OTHER -> c

\* strcasecmp(a, b) == 0
strcasecmp_eq(a, b) ==
    /\ Len(a) = Len(b)
    /\ \A i \in DOMAIN a : LowerCh(a[i]) = LowerCh(b[i])

\* strcmp(a, b) == 0
strcmp_eq(a, b) == a = b

string_is_empty(s) == s = << >>

\* strlcpy(dst, src, size): dst after the call; at most size - 1 characters
\* are copied, and nothing is written when size is 0.
strlcpy(dst, src, size) ==
    IF size = 0 THEN dst
    ELSE SubSeq(src, 1, IF Len(src) < size - 1 THEN Len(src) ELSE size - 1)

\* The name of the no-op backend.
Sentinel == << "n", "u", "l", "l" >>

-----------------------------------------------------------------------------
(* Finding drivers (driver.c:39-199) *)

\* The label hashes, as the source writes them.

HASH_LOCATION_DRIVER == "0x09189689"
HASH_CAMERA_DRIVER == "0xf25db959"
HASH_MENU_DRIVER == "0xd607fb05"
HASH_INPUT_DRIVER == "0x4c087840"
HASH_INPUT_JOYPAD_DRIVER == "0xab124146"
HASH_VIDEO_DRIVER == "0x1805a5e7"
HASH_AUDIO_DRIVER == "0x26594002"
HASH_AUDIO_RESAMPLER_DRIVER == "0xedcba9ec"
HASH_RECORD_DRIVER == "0x144cd2cf"

\* sizeof(str) in find_driver_index
StrSize == 256

KnownHashes ==
    { HASH_LOCATION_DRIVER,
      HASH_CAMERA_DRIVER,
      HASH_MENU_DRIVER,
      HASH_INPUT_DRIVER,
      HASH_INPUT_JOYPAD_DRIVER,
      HASH_VIDEO_DRIVER,
      HASH_AUDIO_DRIVER,
      HASH_AUDIO_RESAMPLER_DRIVER,
      HASH_RECORD_DRIVER }

KnownLabels ==
    { "location driver",
      "camera driver",
      "menu driver",
      "input driver",
      "input joypad driver",
      "video driver",
      "audio driver",
      "audio resampler driver",
      "record driver" }

\* msg_hash_calculate(label): the hash of a known label; any other label
\* hashes to none of them.
msg_hash_calculate(lbl) ==
    CASE lbl = "location driver" -> HASH_LOCATION_DRIVER []
         lbl = "camera driver" -> HASH_CAMERA_DRIVER []
         lbl = "menu driver" -> HASH_MENU_DRIVER []
         lbl = "input driver" -> HASH_INPUT_DRIVER []
         lbl = "input joypad driver" -> HASH_INPUT_JOYPAD_DRIVER []
         lbl = "video driver" -> HASH_VIDEO_DRIVER []
         lbl = "audio driver" -> HASH_AUDIO_DRIVER []
         lbl = "audio resampler driver" -> HASH_AUDIO_RESAMPLER_DRIVER []
         lbl = "record driver" -> HASH_RECORD_DRIVER
      [] OTHER -> "0x00000000"

\* *_driver_find_handle(i) of the category in hand is non-null.
driver_find_handle(i) == i >= 0 /\ i < Len(registry)

\* *_driver_find_ident(i) of the category in hand.
driver_find_ident(i) == registry[i + 1]

\* find_driver_nonempty (driver.c:62-120): whether a driver was found, and
\* the buffer s after the call.
find_driver_nonempty(lbl, i, s, size) ==
    LET hash == msg_hash_calculate(lbl)
        drv  == hash \in KnownHashes /\ driver_find_handle(i)
    IN  [drv |-> drv,
         s   |-> IF drv THEN strlcpy(s, driver_find_ident(i), size) ELSE s]

\* The loop of find_driver_index from index i on (driver.c:138-149).
RECURSIVE find_driver_index_from(_, _, _)
find_driver_index_from(lbl, drv, i) ==
    LET r == find_driver_nonempty(lbl, i, << >>, StrSize)
    IN  IF ~r.drv THEN -1
        ELSE IF string_is_empty(r.s) THEN -1
        ELSE IF strcasecmp_eq(drv, r.s) THEN i
        ELSE find_driver_index_from(lbl, drv, i + 1)

\* Mutant: the names are compared with strcmp.
find_driver_index_case_sensitive(lbl, drv) ==
    LET Found == { i \in 0 .. Len(registry) - 1 :
                     /\ strcmp_eq(drv, registry[i + 1])
                     /\ \A j \in 0 .. i : ~string_is_empty(registry[j + 1]) }
    IN  IF msg_hash_calculate(lbl) \notin KnownHashes \/ Found = {} THEN -1
        ELSE CHOOSE i \in Found : \A j \in Found : i <= j

\* find_driver_index (driver.c:132-150)
find_driver_index(lbl, drv) == find_driver_index_from(lbl, drv, 0)

\* Mutant: the previous driver of the first one is the first one.
find_prev_driver_from_first(lbl, s, size) ==
    LET i == find_driver_index(lbl, s)
    IN  IF i >= 0
        THEN [s |-> find_driver_nonempty(lbl, IF i > 0 THEN i - 1 ELSE 0,
                                         s, size).s,
              ret |-> TRUE]
        ELSE [s |-> s, ret |-> FALSE]

\* find_prev_driver (driver.c:166-178)
find_prev_driver(lbl, s, size) ==
    LET i == find_driver_index(lbl, s)
    IN  IF i > 0
        THEN [s |-> find_driver_nonempty(lbl, i - 1, s, size).s, ret |-> TRUE]
        ELSE [s |-> s, ret |-> FALSE]

\* find_next_driver (driver.c:188-199)
find_next_driver(lbl, s, size) ==
    LET i == find_driver_index(lbl, s)
    IN  IF i >= 0 /\ ~strcmp_eq(s, Sentinel)
        THEN [s |-> find_driver_nonempty(lbl, i + 1, s, size).s, ret |-> TRUE]
        ELSE [s |-> s, ret |-> FALSE]

-----------------------------------------------------------------------------
(* The state machine *)

\* The state a handler starts from, with an empty command log.
Cur == [own |-> own, alloc |-> alloc, log |-> << >>]

\* A handler's result r = [s, ret] becomes the next state.
Commit(cmd, data, r) ==
    /\ own' = r.s.own
    /\ alloc' = r.s.alloc
    /\ log' = r.s.log
    /\ ret' = r.ret
    /\ lastCmd' = [cmd |-> cmd, data |-> data]
    /\ videoNonblock' = VideoNonblockAfter(r.s.log, videoNonblock)
    /\ audioNonblock' = AudioNonblockAfter(r.s.log, audioNonblock)
    /\ UNCHANGED envVars

NoCmd == [cmd |-> "NONE", data |-> NULL]

\* The main loop is between two commands (no command is issued while
\* another is in progress).
Idle == lastCmd = NoCmd

Payloads == Masks \cup {NULL}

CtlInit(data, ctxReset, info) ==
    /\ Idle
    /\ Commit("INIT", data, ctl_init(Cur, data, ctxReset, info))
    /\ UNCHANGED restVars

CtlUninit(data) ==
    /\ Idle
    /\ Commit("UNINIT", data, ctl_uninit(Cur, data))
    /\ UNCHANGED restVars

CtlDeinit(data) ==
    /\ Idle
    /\ Commit("DEINIT", data, ctl_deinit(Cur))
    /\ UNCHANGED restVars

\* driver_ctl has returned; the main loop takes the result and goes on.
Return ==
    /\ ~Idle
    /\ ~crashed
    /\ lastCmd' = NoCmd
    /\ ret' = FALSE
    /\ log' = << >>
    /\ UNCHANGED << own, alloc, envVars, videoNonblock, audioNonblock,
                    restVars >>

\* Another subsystem takes or gives back a category's resource.
SetOwnDriver(c) ==
    /\ Idle
    /\ ~own[c]
    /\ own' = [own EXCEPT ![c] = TRUE]
    /\ UNCHANGED << alloc, envVars, lastCmd, ret, log, videoNonblock,
                    audioNonblock, restVars >>

UnsetOwnDriver(c) ==
    /\ Idle
    /\ own[c]
    /\ own' = [own EXCEPT ![c] = FALSE]
    /\ UNCHANGED << alloc, envVars, lastCmd, ret, log, videoNonblock,
                    audioNonblock, restVars >>

\* The refresh rates and the A/V info records a payload may point at.
Rates == { { "60Hz" }, { "75Hz" } }

AvInfos == { { "ntsc" }, { "pal" } }

\* No find_* function is in use.
NoSelection ==
    /\ label = "video driver"
    /\ registry = << >>
    /\ name = << >>
    /\ len = 1
    /\ selOp = "none"
    /\ selRet = FALSE
    /\ selIdx = -1
    /\ fromFound = FALSE

Fresh ==
    /\ own = [c \in Cat |-> FALSE]
    /\ alloc = [c \in Cat |-> FALSE]
    /\ lastCmd = NoCmd
    /\ ret = FALSE
    /\ log = << >>
    /\ stage = 0
    /\ nInit = [c \in Cat |-> 0]
    /\ nRelease = [c \in Cat |-> 0]
    /\ videoNonblock = FALSE
    /\ audioNonblock = FALSE
    /\ refreshRate = { "60Hz" }
    /\ avInfo = { "ntsc" }
    /\ crashed = FALSE

\* Every setting of the flags the handlers read; ownership changes only
\* through the commands.
Init ==
    /\ Fresh
    /\ NoSelection
    /\ recording = FALSE
    /\ camActive \in BOOLEAN
    /\ locActive \in BOOLEAN
    /\ videoActive \in BOOLEAN
    /\ inputNonblock \in BOOLEAN
    /\ vsync \in BOOLEAN
    /\ forceNonblock \in BOOLEAN

Commands ==
    \/ \E data \in Payloads, ctxReset \in BOOLEAN, info \in BOOLEAN :
          CtlInit(data, ctxReset, info)
    \/ \E data \in Payloads : CtlUninit(data)
    \/ \E data \in Payloads : CtlDeinit(data)
    \/ Return

Next == Commands

Spec == Init /\ [][Next]_vars

\* Ownership taken and given back by other subsystems, under one setting of
\* the flags.
InitOwn ==
    /\ Fresh
    /\ NoSelection
    /\ recording = FALSE
    /\ camActive = TRUE
    /\ locActive = TRUE
    /\ videoActive = TRUE
    /\ inputNonblock = TRUE
    /\ vsync = TRUE
    /\ forceNonblock = FALSE

NextOwn ==
    \/ Commands
    \/ \E c \in Cat : SetOwnDriver(c)
    \/ \E c \in Cat : UnsetOwnDriver(c)

SpecOwn == InitOwn /\ [][NextOwn]_vars

-----------------------------------------------------------------------------
(* The sequence INIT(b), UNINIT(b), INIT(b) over one bitmask b of non-menu  *)
(* categories, counting each backend's init and release calls.              *)

NumCalls(l, c, op) == Cardinality({ i \in DOMAIN l : l[i] = << c, op >> })

Tally(l) ==
    /\ nInit' = [c \in Cat |-> nInit[c] + NumCalls(l, c, "INIT")]
    /\ nRelease' = [c \in Cat |->
                       nRelease[c] + NumCalls(l, c, "DEINIT")
                                   + NumCalls(l, c, "DESTROY_DATA")]

SeqInit(b, ctxReset, info) ==
    /\ \/ stage = 0
       \/ stage = 2 /\ b = lastCmd.data
    /\ Commit("INIT", b, ctl_init(Cur, b, ctxReset, info))
    /\ stage' = stage + 1
    /\ Tally(log')
    /\ UNCHANGED << cfgVars, selVars >>

SeqUninit ==
    /\ stage = 1
    /\ Commit("UNINIT", lastCmd.data, ctl_uninit(Cur, lastCmd.data))
    /\ stage' = stage + 1
    /\ Tally(log')
    /\ UNCHANGED << cfgVars, selVars >>

InitReinit ==
    /\ Fresh
    /\ NoSelection
    /\ recording = FALSE
    /\ camActive \in BOOLEAN
    /\ locActive \in BOOLEAN
    /\ inputNonblock \in BOOLEAN
    /\ forceNonblock \in BOOLEAN
    /\ videoActive = TRUE
    /\ vsync = TRUE

NextReinit ==
    \/ \E b \in SUBSET NonMenu, ctxReset \in BOOLEAN, info \in BOOLEAN :
          SeqInit(b, ctxReset, info)
    \/ SeqUninit

SpecReinit == InitReinit /\ [][NextReinit]_vars

-----------------------------------------------------------------------------
(* Every command of driver_ctl, over the bitmasks of VIDEO and AUDIO *)

\* The payload of a command that does not read it.
AnyPayloads == { NULL, { DRIVER_VIDEO } }

CtlMasks == { {}, { DRIVER_VIDEO }, { DRIVER_AUDIO },
              { DRIVER_VIDEO, DRIVER_AUDIO }, NULL }

\* A non-null pointer to a null A/V info record.
NullInfo == { "NULLINFO" }

AvPayloads == AvInfos \cup { NULL, NullInfo }

\* The process dies inside cmd on an invalid memory access.
Crash(cmd, data) ==
    /\ crashed' = TRUE
    /\ lastCmd' = [cmd |-> cmd, data |-> data]
    /\ UNCHANGED << own, alloc, envVars, ret, log, videoNonblock,
                    audioNonblock, seqVars, refreshRate, avInfo, recording,
                    selVars >>

CtlInitPre(data) ==
    /\ Idle
    /\ Commit("INIT_PRE", data, ctl_init_pre(Cur))
    /\ UNCHANGED restVars

CtlSetNonblockState(data) ==
    /\ Idle
    /\ Commit("SET_NONBLOCK_STATE", data,
              [s |-> ctl_set_nonblock_state(Cur), ret |-> FALSE])
    /\ UNCHANGED restVars

CtlNone(data) ==
    /\ Idle
    /\ Commit("UNKNOWN", data, ctl_none(Cur))
    /\ UNCHANGED restVars

\* SET_REFRESH_RATE reads *hz with no null check (driver.c:461-462): a null
\* hz kills the process or yields whatever the read returns.
CtlSetRefreshRate(data) ==
    /\ Idle
    /\ \/ /\ data # NULL
          /\ Commit("SET_REFRESH_RATE", data, ctl_set_refresh_rate(Cur))
          /\ refreshRate' = data
          /\ UNCHANGED << seqVars, avInfo, recording, crashed, selVars >>
       \/ /\ data = NULL
          /\ Crash("SET_REFRESH_RATE", data)
       \/ /\ data = NULL
          /\ Commit("SET_REFRESH_RATE", data, ctl_set_refresh_rate(Cur))
          /\ refreshRate' \in Rates
          /\ UNCHANGED << seqVars, avInfo, recording, crashed, selVars >>

\* UPDATE_SYSTEM_AV_INFO checks the payload pointer, not the record pointer
\* it holds (driver.c:472-474): memcpy from a null record kills the process
\* or copies whatever the read returns.
CtlUpdateSystemAvInfo(data, ctxReset, info) ==
    /\ Idle
    /\ \/ /\ data = NULL
          /\ Commit("UPDATE_SYSTEM_AV_INFO", data,
                    ctl_update_system_av_info(Cur, data, ctxReset, info))
          /\ UNCHANGED restVars
       \/ /\ data \in AvInfos
          /\ Commit("UPDATE_SYSTEM_AV_INFO", data,
                    ctl_update_system_av_info(Cur, data, ctxReset, info))
          /\ avInfo' = data
          /\ UNCHANGED << seqVars, refreshRate, recording, crashed, selVars >>
       \/ /\ data = NullInfo
          /\ Crash("UPDATE_SYSTEM_AV_INFO", data)
       \/ /\ data = NullInfo
          /\ Commit("UPDATE_SYSTEM_AV_INFO", data,
                    ctl_update_system_av_info(Cur, data, ctxReset, info))
          /\ avInfo' \in AvInfos
          /\ UNCHANGED << seqVars, refreshRate, recording, crashed, selVars >>

\* The input subsystem enters or leaves its nonblocking mode.
ToggleInputNonblock ==
    /\ Idle
    /\ inputNonblock' = ~inputNonblock
    /\ UNCHANGED << own, alloc, camActive, locActive, videoActive, vsync,
                    forceNonblock, lastCmd, ret, log, videoNonblock,
                    audioNonblock, restVars >>

InitCtl ==
    /\ Fresh
    /\ NoSelection
    /\ recording \in BOOLEAN
    /\ camActive = TRUE
    /\ locActive = TRUE
    /\ videoActive \in BOOLEAN
    /\ inputNonblock \in BOOLEAN
    /\ vsync \in BOOLEAN
    /\ forceNonblock \in BOOLEAN

NextCtl ==
    \/ \E data \in CtlMasks, ctxReset \in BOOLEAN, info \in BOOLEAN :
          CtlInit(data, ctxReset, info)
    \/ \E data \in CtlMasks : CtlUninit(data)
    \/ \E data \in AnyPayloads : CtlDeinit(data)
    \/ \E data \in AnyPayloads : CtlInitPre(data)
    \/ \E data \in AnyPayloads : CtlSetNonblockState(data)
    \/ \E data \in AnyPayloads : CtlNone(data)
    \/ \E data \in Rates \cup { NULL } : CtlSetRefreshRate(data)
    \/ \E data \in AvPayloads, ctxReset \in BOOLEAN, info \in BOOLEAN :
          CtlUpdateSystemAvInfo(data, ctxReset, info)
    \/ Return
    \/ ToggleInputNonblock

SpecCtl == InitCtl /\ [][NextCtl]_vars

-----------------------------------------------------------------------------
(* Cycling through the drivers of one category *)

\* The most drivers a category registers, and the largest buffer a caller
\* hands in.
MaxDrivers == 3

MaxLen == 5

\* What a driver may be called; the empty name is a placeholder's.
DriverNames == { << "g", "l" >>, << "s", "d", "l" >>, Sentinel, << >> }

\* What a caller may hold as the selection.
SelectionNames ==
    DriverNames \cup { << "G", "L" >>, << "N", "U", "L", "L" >>, << "x" >> }

Labels == KnownLabels \cup { "unknown driver" }

\* A category's list: named drivers, the sentinel (when there is one) the
\* last of them, then placeholders with an empty name.
IsRegistry(r) ==
    \A i \in DOMAIN r :
        /\ string_is_empty(r[i]) =>
              \A j \in DOMAIN r : j > i => string_is_empty(r[j])
        /\ r[i] = Sentinel =>
              \A j \in DOMAIN r : j > i => string_is_empty(r[j])

Registries ==
    { r \in UNION { [1 .. n -> DriverNames] : n \in 0 .. MaxDrivers } :
        IsRegistry(r) }

\* What the find_* functions leave alone.
lifeVars == << own, alloc, envVars, lastCmd, ret, log, videoNonblock,
               audioNonblock, seqVars, cfgVars >>

FindDriverIndex ==
    /\ selOp' = "index"
    /\ selIdx' = find_driver_index(label, name)
    /\ UNCHANGED << label, registry, name, len, selRet, fromFound, lifeVars >>

FindPrevDriver ==
    /\ selOp' = "prev"
    /\ name' = find_prev_driver(label, name, len).s
    /\ selRet' = find_prev_driver(label, name, len).ret
    /\ UNCHANGED << label, registry, len, selIdx, fromFound, lifeVars >>

FindNextDriver ==
    /\ selOp' = "next"
    /\ name' = find_next_driver(label, name, len).s
    /\ selRet' = find_next_driver(label, name, len).ret
    /\ UNCHANGED << label, registry, len, selIdx, fromFound, lifeVars >>

\* The caller's buffer holds the selection it starts from.
InitSel ==
    /\ Fresh
    /\ recording = FALSE
    /\ camActive = TRUE
    /\ locActive = TRUE
    /\ videoActive = TRUE
    /\ inputNonblock = FALSE
    /\ vsync = TRUE
    /\ forceNonblock = FALSE
    /\ label \in Labels
    /\ registry \in Registries
    /\ name \in SelectionNames
    /\ len \in 1 .. MaxLen
    /\ Len(name) < len
    /\ selOp = "none"
    /\ selRet = FALSE
    /\ selIdx = -1
    /\ fromFound = (find_driver_index(label, name) >= 0)

NextSel ==
    \/ FindDriverIndex
    \/ FindPrevDriver
    \/ FindNextDriver

SpecSel == InitSel /\ [][NextSel]_vars

-----------------------------------------------------------------------------
(* Reading the command log *)

Calls(l) == { l[i] : i \in DOMAIN l }

Count(l, e) == Cardinality({ i \in DOMAIN l : l[i] = e })

\* The calls of l sent to backend c.
CallsTo(l, c) == { e \in Calls(l) : e[1] = c }

\* l lists some of the (distinct) entries of order, in order's order.
IsSubseq(l, order) ==
    LET Pos(e) == CHOOSE k \in DOMAIN order : order[k] = e
    IN  /\ \A i \in DOMAIN l : \E k \in DOMAIN order : order[k] = l[i]
        /\ \A i, j \in DOMAIN l : i < j => Pos(l[i]) < Pos(l[j])

\* The last command was cmd, given a bitmask, and has returned.
Done(cmd) == lastCmd.cmd = cmd /\ lastCmd.data # NULL

\* The teardown call of uninit_drivers that asks OWNS_DRIVER first.
GuardedCall(c) ==
    IF c \in { DRIVER_MENU, DRIVER_LOCATION, DRIVER_CAMERA }
    THEN << c, "DEINIT" >> ELSE << c, "DESTROY_DATA" >>

TeardownOps == { "DEINIT", "DESTROY_DATA", "DESTROY" }

-----------------------------------------------------------------------------
(* UNINIT and the ownership flags.  uninit_drivers changes no ownership     *)
(* flag, so `own` in the state UNINIT returns in is the flag UNINIT read.   *)

\* C1, as claimed: when C is in the bitmask of UNINIT and C's ownership flag
\* is true, UNINIT issues no deinit/destroy call on C's backend.
C1_NoTeardownWhenOwned ==
    Done("UNINIT") =>
        \A c \in lastCmd.data :
            own[c] => \A e \in CallsTo(log, c) : e[2] \notin TeardownOps

\* C1, amended: UNINIT issues C's ownership-guarded teardown call (deinit of
\* MENU, LOCATION, CAMERA; destroy-data of VIDEO, INPUT, AUDIO) exactly when
\* C is in the bitmask and C's ownership flag is false; the audio deinit, the
\* video deinit and the menu context-destroy are issued whenever the bitmask
\* has AUDIO, a bit of the aggregate VIDEO|INPUT mask, MENU, whatever the
\* ownership flags.
C1_GuardedTeardown ==
    Done("UNINIT") =>
        /\ \A c \in Cat :
              GuardedCall(c) \in Calls(log) <=> (c \in lastCmd.data /\ ~own[c])
        /\ << DRIVER_AUDIO, "DEINIT" >> \in Calls(log)
              <=> DRIVER_AUDIO \in lastCmd.data
        /\ << DRIVER_VIDEO, "DEINIT" >> \in Calls(log)
              <=> Has(lastCmd.data, DRIVERS_VIDEO_INPUT)
        /\ << DRIVER_MENU, "CONTEXT_DESTROY" >> \in Calls(log)
              <=> DRIVER_MENU \in lastCmd.data

\* C1 witness: UNINIT of an externally owned audio backend issued the audio
\* deinit and skipped the audio destroy-data.
C1_Witness ==
    /\ Done("UNINIT")
    /\ DRIVER_AUDIO \in lastCmd.data
    /\ own[DRIVER_AUDIO]
    /\ << DRIVER_AUDIO, "DEINIT" >> \in Calls(log)
    /\ << DRIVER_AUDIO, "DESTROY_DATA" >> \notin Calls(log)

\* The order of the teardown calls in uninit_drivers.
UninitOrder ==
    << << DRIVER_MENU, "CONTEXT_DESTROY" >>, << DRIVER_MENU, "DEINIT" >>,
       << DRIVER_LOCATION, "DEINIT" >>, << DRIVER_CAMERA, "DEINIT" >>,
       << DRIVER_AUDIO, "DEINIT" >>, << DRIVER_VIDEO, "DEINIT" >>,
       << DRIVER_VIDEO, "DESTROY_DATA" >>, << DRIVER_INPUT, "DESTROY_DATA" >>,
       << DRIVER_AUDIO, "DESTROY_DATA" >> >>

\* C4: the teardown calls UNINIT issues are a subsequence of the fixed order
\* MENU, LOCATION, CAMERA, AUDIO (deinit), VIDEO+INPUT (video deinit), VIDEO,
\* INPUT, AUDIO (destroy data), for every bitmask and all ownership flags.
C4_UninitOrder ==
    Done("UNINIT") => IsSubseq(log, UninitOrder)

\* C4 witness: UNINIT of every category, with some ownership flags set,
\* issued all of the order but three guarded calls.
C4_Witness ==
    /\ Done("UNINIT")
    /\ lastCmd.data = Cat
    /\ own[DRIVER_VIDEO] /\ own[DRIVER_LOCATION] /\ ~own[DRIVER_AUDIO]
    /\ Len(log) = Len(UninitOrder) - 3

VideoInputDestroyPath ==
    { << DRIVER_VIDEO, "DEINIT" >>, << DRIVER_VIDEO, "DESTROY_DATA" >>,
      << DRIVER_INPUT, "DESTROY_DATA" >> }

\* C6, as claimed: UNINIT of MENU alone does not invoke the video/input
\* destroy path when the menu ownership flag is true, and does when it is
\* false.
C6_MenuFlagDecidesVideoInput ==
    (Done("UNINIT") /\ lastCmd.data = { DRIVER_MENU }) =>
        (own[DRIVER_MENU] <=> Calls(log) \cap VideoInputDestroyPath = {})

\* C6, amended: UNINIT of MENU alone never invokes the video/input destroy
\* path; the menu ownership flag decides the menu deinit: with the flag true
\* only the menu context-destroy is issued, with it false the menu
\* context-destroy followed by the menu deinit.
C6_MenuFlagDecidesMenuDeinit ==
    (Done("UNINIT") /\ lastCmd.data = { DRIVER_MENU }) =>
        /\ Calls(log) \cap VideoInputDestroyPath = {}
        /\ own[DRIVER_MENU] =>
              log = << << DRIVER_MENU, "CONTEXT_DESTROY" >> >>
        /\ ~own[DRIVER_MENU] =>
              log = << << DRIVER_MENU, "CONTEXT_DESTROY" >>,
                       << DRIVER_MENU, "DEINIT" >> >>

\* C6 witness: UNINIT of an allocated menu the menu itself owns.
C6_Witness ==
    /\ Done("UNINIT")
    /\ lastCmd.data = { DRIVER_MENU }
    /\ ~own[DRIVER_MENU]
    /\ alloc[DRIVER_VIDEO]
    /\ ~alloc[DRIVER_MENU]
    /\ << DRIVER_MENU, "DEINIT" >> \in Calls(log)

-----------------------------------------------------------------------------
(* INIT, UNINIT and the bitmask *)

\* A step in which driver_ctl runs cmd.
Step(cmd) == Idle /\ lastCmd'.cmd = cmd

\* C2, as claimed: INIT and UNINIT issue no call to the backend of a
\* category absent from the bitmask and leave its ownership flag and its
\* allocation state unchanged.
C2_AbsentUntouched ==
    [][ \A cmd \in { "INIT", "UNINIT" } :
          (Step(cmd) /\ lastCmd'.data # NULL) =>
              \A c \in Cat \ lastCmd'.data :
                  /\ CallsTo(log', c) = {}
                  /\ own'[c] = own[c]
                  /\ alloc'[c] = alloc[c] ]_vars

\* What INIT or UNINIT with bitmask b may send to the backend of a category
\* c that is not in b.
AbsentCalls(cmd, b, c) ==
    IF cmd = "INIT" /\ c = DRIVER_MENU
        THEN { << c, "SET_OWN_DRIVER" >>, << c, "UPDATE_LIBRETRO_INFO" >> }
    ELSE IF cmd = "INIT" /\ c = DRIVER_VIDEO /\ DRIVER_AUDIO \in b
        THEN { << c, "MONITOR_ADJUST_SYSTEM_RATES" >>,
               << c, "SET_NONBLOCK_STATE", TRUE >>,
               << c, "SET_NONBLOCK_STATE", FALSE >> }
    ELSE IF cmd = "INIT" /\ c = DRIVER_AUDIO /\ DRIVER_VIDEO \in b
        THEN { << c, "MONITOR_ADJUST_SYSTEM_RATES" >>,
               << c, "SET_NONBLOCKING_STATE", TRUE >>,
               << c, "SET_NONBLOCKING_STATE", FALSE >> }
    ELSE IF cmd = "UNINIT" /\ c = DRIVER_VIDEO /\ Has(b, DRIVERS_VIDEO_INPUT)
        THEN { << c, "DEINIT" >> }
    ELSE {}

\* C2, amended: for a category C absent from the bitmask, INIT and UNINIT
\* leave C's ownership flag and allocation state unchanged and send nothing
\* to C's backend, except that INIT always sets the MENU ownership flag and
\* refreshes the menu metadata, INIT with VIDEO or AUDIO sends the
\* rate-adjust and nonblocking commands to both the video and the audio
\* backend, and UNINIT with a bit of the aggregate VIDEO|INPUT mask but not
\* VIDEO still issues the video deinit, which may release the video backend.
C2_AbsentUntouchedButMenu ==
    [][ \A cmd \in { "INIT", "UNINIT" } :
          (Step(cmd) /\ lastCmd'.data # NULL) =>
              \A c \in Cat \ lastCmd'.data :
                  /\ CallsTo(log', c) \subseteq
                        AbsentCalls(cmd, lastCmd'.data, c)
                  /\ IF cmd = "INIT" /\ c = DRIVER_MENU
                        THEN own'[c] ELSE own'[c] = own[c]
                  /\ \/ alloc'[c] = alloc[c]
                     \/ /\ << c, "DEINIT" >> \in Calls(log')
                        /\ ~alloc'[c] ]_vars

\* C2 witness: INIT of the camera alone left the set location flag and the
\* live audio backend as they were, and set the menu flag.
C2_Witness ==
    /\ Done("INIT")
    /\ lastCmd.data = { DRIVER_CAMERA }
    /\ own[DRIVER_LOCATION] /\ own[DRIVER_MENU]
    /\ alloc[DRIVER_AUDIO] /\ ~alloc[DRIVER_MENU]
    /\ << DRIVER_MENU, "SET_OWN_DRIVER" >> \in Calls(log)

\* C3: INIT or UNINIT given a null bitmask returns failure, issues no
\* backend call and changes no ownership flag and no allocation state.
C3_NullBitmask ==
    [][ \A cmd \in { "INIT", "UNINIT" } :
          (Step(cmd) /\ lastCmd'.data = NULL) =>
              /\ ret' = FALSE
              /\ log' = << >>
              /\ own' = own
              /\ alloc' = alloc ]_vars

\* C3 witness: INIT with a null bitmask has returned failure while backends
\* are live.
C3_Witness ==
    /\ lastCmd = [cmd |-> "INIT", data |-> NULL]
    /\ ret = FALSE
    /\ alloc[DRIVER_VIDEO] /\ ~own[DRIVER_MENU]

\* C9: after INIT with a bitmask, the ownership flag is false for every
\* category of VIDEO, AUDIO, INPUT, CAMERA, LOCATION in the bitmask, is
\* unchanged for every such category not in it, and the MENU flag is left
\* set: INIT sends unset-own-driver to exactly the non-menu categories of
\* the bitmask, set-own-driver to the menu alone, and never clears the menu
\* flag.
C9_InitOwnership ==
    [][ (Step("INIT") /\ lastCmd'.data # NULL) =>
          /\ \A c \in NonMenu \cap lastCmd'.data : ~own'[c]
          /\ \A c \in NonMenu \ lastCmd'.data : own'[c] = own[c]
          /\ own'[DRIVER_MENU]
          /\ \A c \in Cat :
                /\ << c, "UNSET_OWN_DRIVER" >> \in Calls(log')
                      <=> c \in NonMenu \cap lastCmd'.data
                /\ << c, "SET_OWN_DRIVER" >> \in Calls(log')
                      <=> c = DRIVER_MENU ]_vars

\* C9 witness: INIT of camera and video has returned with the location
\* flag still set.
C9_Witness ==
    /\ Done("INIT")
    /\ lastCmd.data = { DRIVER_CAMERA, DRIVER_VIDEO }
    /\ own[DRIVER_LOCATION] /\ own[DRIVER_INPUT] /\ own[DRIVER_MENU]
    /\ ~own[DRIVER_CAMERA] /\ ~own[DRIVER_VIDEO]

-----------------------------------------------------------------------------
(* DEINIT *)

DeinitCalls ==
    << << DRIVER_VIDEO, "DESTROY" >>, << DRIVER_AUDIO, "DESTROY" >>,
       << DRIVER_INPUT, "DESTROY" >>, << DRIVER_MENU, "DESTROY" >>,
       << DRIVER_LOCATION, "DESTROY" >>, << DRIVER_CAMERA, "DESTROY" >>,
       << "libretro", "retro_uninit_libretro_cbs" >> >>

\* C7: DEINIT, whatever its payload and the state it starts in, issues
\* destroy for each of the six backend objects and tears down the libretro
\* callback table, leaving every backend destroyed; DEINIT again in the
\* state it returns in issues the same calls and leaves the same state.
C7_DeinitIdempotent ==
    lastCmd.cmd = "DEINIT" =>
        /\ log = DeinitCalls
        /\ \A c \in Cat : ~alloc[c]
        /\ ctl_deinit(Cur).s = [own |-> own, alloc |-> alloc, log |-> log]

\* C7 witness: DEINIT, given a bitmask it ignores, has returned.
C7_Witness ==
    /\ lastCmd = [cmd |-> "DEINIT", data |-> { DRIVER_INPUT }]
    /\ own[DRIVER_MENU]
    /\ Len(log) = Len(DeinitCalls)

\* C8, as claimed: when the ownership flag of a category is true, DEINIT
\* does not destroy that category's backend.
C8_DeinitSparesOwned ==
    lastCmd.cmd = "DEINIT" =>
        \A c \in Cat : own[c] => << c, "DESTROY" >> \notin Calls(log)

\* C8, amended: DEINIT does not consult the ownership flags: when the flag
\* of a category is true DEINIT still issues the destroy call of that
\* category's backend object, and it issues none of the deinit and
\* destroy-data calls that UNINIT guards with the flag.
C8_DeinitIgnoresOwnership ==
    lastCmd.cmd = "DEINIT" =>
        /\ \A c \in Cat : own[c] => << c, "DESTROY" >> \in Calls(log)
        /\ \A c \in Cat : GuardedCall(c) \notin Calls(log)

\* C8 witness: DEINIT has destroyed a video backend flagged externally
\* owned.
C8_Witness ==
    /\ lastCmd.cmd = "DEINIT"
    /\ own[DRIVER_VIDEO] /\ own[DRIVER_AUDIO]
    /\ << DRIVER_VIDEO, "DESTROY" >> \in Calls(log)

-----------------------------------------------------------------------------
(* The order of INIT's steps *)

RateStep     == << "driver", "ADJUST_SYSTEM_RATES" >>
NonblockStep == << "driver", "SET_NONBLOCK_STATE" >>
MetadataStep == << DRIVER_MENU, "UPDATE_LIBRETRO_INFO" >>

\* The call that opens each step of init_drivers but the final
\* re-application of the nonblocking state.
StepHeads ==
    { RateStep, << DRIVER_VIDEO, "MONITOR_RESET" >>,
      << DRIVER_VIDEO, "INIT" >>, << DRIVER_AUDIO, "INIT" >>,
      << DRIVER_CAMERA, "INIT" >>, << DRIVER_LOCATION, "INIT" >>,
      MetadataStep, << DRIVER_MENU, "INIT" >>,
      << DRIVER_MENU, "CONTEXT_RESET" >> }

IsStepHead(e) == e \in StepHeads

Opt(cond, steps) == IF cond THEN steps ELSE << >>

\* The steps the claim lists for bitmask b, without the final one.
ExpectedSteps(b) ==
    Opt(Has(b, { DRIVER_VIDEO, DRIVER_AUDIO }), << RateStep >>)
    \o Opt(DRIVER_VIDEO \in b, << << DRIVER_VIDEO, "MONITOR_RESET" >>,
                                  << DRIVER_VIDEO, "INIT" >> >>)
    \o Opt(DRIVER_AUDIO \in b, << << DRIVER_AUDIO, "INIT" >> >>)
    \o Opt(DRIVER_CAMERA \in b /\ camActive, << << DRIVER_CAMERA, "INIT" >> >>)
    \o Opt(DRIVER_LOCATION \in b /\ locActive,
           << << DRIVER_LOCATION, "INIT" >> >>)
    \o << MetadataStep >>
    \o Opt(DRIVER_MENU \in b, << << DRIVER_MENU, "INIT" >>,
                                 << DRIVER_MENU, "CONTEXT_RESET" >> >>)

\* The log ends with a re-application of the nonblocking state: a
\* SET_NONBLOCK_STATE command after every other step, followed by nothing
\* but the nonblocking settings it sends to the backends.
ReappliedLast(l) ==
    \E k \in DOMAIN l :
        /\ l[k] = NonblockStep
        /\ \A j \in DOMAIN l : IsStepHead(l[j]) => j < k
        /\ \A j \in DOMAIN l :
              j > k => l[j][2] \in { "SET_NONBLOCK_STATE",
                                     "SET_NONBLOCKING_STATE" }

\* C10: INIT issues its steps in the order rate recomputation, video monitor
\* reset and video allocation, audio allocation, camera allocation, location
\* allocation, metadata refresh, menu allocation and menu context reset,
\* each exactly when its condition holds, and re-applies the nonblocking
\* state as the last step exactly when the bitmask has VIDEO or AUDIO and
\* the input subsystem is in nonblocking mode.
C10_InitStepOrder ==
    Done("INIT") =>
        /\ SelectSeq(log, IsStepHead) = ExpectedSteps(lastCmd.data)
        /\ ReappliedLast(log)
              <=> (Has(lastCmd.data, { DRIVER_VIDEO, DRIVER_AUDIO })
                   /\ inputNonblock)

\* C10 witness: INIT of every category, camera and location in use and the
\* input nonblocking, has issued every step.
C10_Witness ==
    /\ Done("INIT")
    /\ lastCmd.data = Cat
    /\ camActive /\ locActive /\ inputNonblock
    /\ Len(SelectSeq(log, IsStepHead)) = Cardinality(StepHeads)
    /\ ReappliedLast(log)

-----------------------------------------------------------------------------
(* INIT, UNINIT, INIT *)

\* C5, as claimed: once the UNINIT of INIT(b), UNINIT(b), INIT(b) completes,
\* each backend's release (deinit/destroy) call count equals its allocation
\* (init) call count.
C5_ReleaseEqualsInit ==
    stage = 2 => \A c \in Cat : nRelease[c] = nInit[c]

\* The init calls INIT(b) sends to the backend of c.
InitCalls(b, c) ==
    IF \/ c \in b \cap { DRIVER_VIDEO, DRIVER_AUDIO }
       \/ c = DRIVER_CAMERA /\ c \in b /\ camActive
       \/ c = DRIVER_LOCATION /\ c \in b /\ locActive
    THEN 1 ELSE 0

\* The deinit and destroy-data calls UNINIT(b) sends to the backend of c
\* after INIT(b) has cleared the ownership flags of b.
ReleaseCalls(b, c) ==
    (IF c \in b \ { DRIVER_MENU } THEN 1 ELSE 0)
    + (IF c = DRIVER_AUDIO /\ c \in b THEN 1 ELSE 0)
    + (IF c = DRIVER_VIDEO /\ Has(b, DRIVERS_VIDEO_INPUT) THEN 1 ELSE 0)

\* C5, amended: once the UNINIT completes, every backend INIT(b) sent an init
\* call has been sent a release call, so the second INIT never initialises a
\* backend that was not released in between.  The counts are not equal:
\* AUDIO gets a deinit and a destroy-data for its one init, VIDEO a
\* destroy-data and the deinit keyed on the aggregate VIDEO|INPUT mask, INPUT
\* a destroy-data and no init of its own, and CAMERA or LOCATION in the
\* bitmask a deinit even when it is not active-in-use and was never
\* initialised.
C5_NoLeak ==
    /\ stage = 2 =>
          \A c \in Cat :
              /\ nInit[c] = InitCalls(lastCmd.data, c)
              /\ nRelease[c] = ReleaseCalls(lastCmd.data, c)
              /\ nInit[c] <= nRelease[c]
    /\ stage = 3 =>
          \A c \in Cat :
              /\ nInit[c] = 2 * InitCalls(lastCmd.data, c)
              /\ nInit[c] <= nRelease[c] + 1

\* C5 witness: the second INIT has returned; the camera, not in use, was
\* deinitialised without ever being initialised, and the audio backend was
\* sent two release calls between its two inits.
C5_Witness ==
    /\ stage = 3
    /\ lastCmd.data = NonMenu
    /\ ~camActive /\ locActive
    /\ nInit[DRIVER_VIDEO] = 2 /\ nRelease[DRIVER_VIDEO] = 2
    /\ nInit[DRIVER_AUDIO] = 2 /\ nRelease[DRIVER_AUDIO] = 2
    /\ nInit[DRIVER_CAMERA] = 0 /\ nRelease[DRIVER_CAMERA] = 1

-----------------------------------------------------------------------------
(* SET_NONBLOCK_STATE and the rate step *)

\* The effective video mode of SET_NONBLOCK_STATE.
VideoPolicy == inputNonblock \/ ~vsync \/ forceNonblock

\* What driver_set_nonblock_state sends from the current state.
PolicyCalls ==
    Opt(videoActive /\ alloc[DRIVER_VIDEO],
        << << DRIVER_VIDEO, "SET_NONBLOCK_STATE", VideoPolicy >> >>)
    \o << << DRIVER_AUDIO, "SET_NONBLOCKING_STATE", inputNonblock >> >>

RateCalls ==
    << RateStep, << DRIVER_AUDIO, "MONITOR_ADJUST_SYSTEM_RATES" >>,
       << DRIVER_VIDEO, "MONITOR_ADJUST_SYSTEM_RATES" >> >>
    \o (IF ~alloc[DRIVER_VIDEO] THEN << >>
        ELSE IF forceNonblock
             THEN << << "event", "VIDEO_SET_NONBLOCKING_STATE" >> >>
        ELSE << NonblockStep >> \o PolicyCalls)

\* l holds part as one block, once.
HasBlock(l, part) ==
    /\ Count(l, part[1]) = 1
    /\ \E k \in DOMAIN l :
          /\ k + Len(part) - 1 <= Len(l)
          /\ SubSeq(l, k, k + Len(part) - 1) = part

\* C19: SET_REFRESH_RATE sets the monitor rate, notifies the audio timing
\* monitor and then runs the rate step; INIT runs the same step exactly
\* when its bitmask has VIDEO or AUDIO.  The step sends no nonblocking
\* command when no video handle is live, only the video nonblocking event
\* when one is and the system forces nonblocking (the audio mode stays),
\* and the whole SET_NONBLOCK_STATE policy otherwise.
C19_RateStep ==
    [][ /\ (Step("SET_REFRESH_RATE") /\ ~crashed') =>
              /\ log' = << << "video_monitor", "SET_REFRESH_RATE" >>,
                           << DRIVER_AUDIO, "MONITOR_SET_REFRESH_RATE" >> >>
                        \o RateCalls
              /\ ~alloc[DRIVER_VIDEO] =>
                    /\ videoNonblock' = videoNonblock
                    /\ audioNonblock' = audioNonblock
              /\ (alloc[DRIVER_VIDEO] /\ forceNonblock) =>
                    /\ videoNonblock'
                    /\ audioNonblock' = audioNonblock
              /\ (alloc[DRIVER_VIDEO] /\ ~forceNonblock) =>
                    /\ audioNonblock' = inputNonblock
                    /\ videoNonblock' = IF videoActive THEN VideoPolicy
                                        ELSE videoNonblock
        /\ (Step("INIT") /\ lastCmd'.data # NULL) =>
              IF Has(lastCmd'.data, { DRIVER_VIDEO, DRIVER_AUDIO })
              THEN HasBlock(log', RateCalls)
              ELSE RateStep \notin Calls(log') ]_vars

\* C19 witness: SET_REFRESH_RATE has run the rate step on a live video
\* handle with nonblocking forced: the video event was sent, the audio mode
\* kept.
C19_Witness ==
    /\ lastCmd.cmd = "SET_REFRESH_RATE"
    /\ ~crashed
    /\ alloc[DRIVER_VIDEO] /\ forceNonblock /\ inputNonblock
    /\ videoNonblock /\ ~audioNonblock
    /\ refreshRate = { "75Hz" }
    /\ << "event", "VIDEO_SET_NONBLOCKING_STATE" >> \in Calls(log)

-----------------------------------------------------------------------------
(* UPDATE_SYSTEM_AV_INFO *)

RecordRestart ==
    << << "runloop", "msg_queue_push" >>, << "event", "RECORD_DEINIT" >>,
       << "event", "RECORD_INIT" >> >>

\* The last n entries of l.
LastN(l, n) == SubSeq(l, Len(l) - n + 1, Len(l))

\* C12: UPDATE_SYSTEM_AV_INFO, given a new A/V info record, first overwrites
\* the process-wide A/V info, then triggers the reinit event, and then, if
\* and only if a recording is active, notifies the user and issues exactly
\* one record-deinit followed by exactly one record-init; the A/V info
\* equals the new record when the command returns.
C12_AvInfoUpdate ==
    [][ (Step("UPDATE_SYSTEM_AV_INFO") /\ lastCmd'.data \in AvInfos) =>
          /\ avInfo' = lastCmd'.data
          /\ log'[1] = << "av_info", "memcpy" >>
          /\ log'[2] = << "event", "REINIT" >>
          /\ Count(log', << "av_info", "memcpy" >>) = 1
          /\ Count(log', << "event", "REINIT" >>) = 1
          /\ \A i \in DOMAIN RecordRestart :
                Count(log', RecordRestart[i]) = IF recording THEN 1 ELSE 0
          /\ recording => LastN(log', Len(RecordRestart)) = RecordRestart
        ]_vars

\* C12 witness: UPDATE_SYSTEM_AV_INFO has returned with a recording active
\* and the new record in place.
C12_Witness ==
    /\ lastCmd = [cmd |-> "UPDATE_SYSTEM_AV_INFO", data |-> { "pal" }]
    /\ recording /\ ret
    /\ avInfo = { "pal" }
    /\ LastN(log, Len(RecordRestart)) = RecordRestart

\* C13, as claimed: UPDATE_SYSTEM_AV_INFO returns success for every state
\* and every payload.
C13_AlwaysSuccess ==
    lastCmd.cmd = "UPDATE_SYSTEM_AV_INFO" => (~crashed /\ ret = TRUE)

\* C13, amended: UPDATE_SYSTEM_AV_INFO returns success in every state for
\* every payload that points at an A/V info record, recording or not; given
\* a null payload it returns failure.
C13_SuccessUnlessNull ==
    lastCmd.cmd = "UPDATE_SYSTEM_AV_INFO" =>
        /\ lastCmd.data \in AvInfos => (~crashed /\ ret = TRUE)
        /\ lastCmd.data = NULL => (~crashed /\ ret = FALSE)

\* C13 witness: UPDATE_SYSTEM_AV_INFO has failed on a null payload and has
\* succeeded on a record with no recording active.
C13_Witness ==
    /\ lastCmd.cmd = "UPDATE_SYSTEM_AV_INFO"
    /\ \/ lastCmd.data = NULL /\ ~ret /\ recording
       \/ lastCmd.data = { "pal" } /\ ret /\ ~recording /\ avInfo = { "pal" }

-----------------------------------------------------------------------------
(* Null payloads and the result of driver_ctl *)

\* C14: SET_REFRESH_RATE with a null rate and UPDATE_SYSTEM_AV_INFO with a
\* null payload fail at once with a false result: no crash, no call, and
\* the refresh rate, the A/V info and the backends' state unchanged.
C14_NullPayloadFails ==
    [][ \A cmd \in { "SET_REFRESH_RATE", "UPDATE_SYSTEM_AV_INFO" } :
          (Step(cmd) /\ lastCmd'.data = NULL) =>
              /\ ~crashed'
              /\ ret' = FALSE
              /\ log' = << >>
              /\ refreshRate' = refreshRate
              /\ avInfo' = avInfo
              /\ own' = own /\ alloc' = alloc
              /\ videoNonblock' = videoNonblock
              /\ audioNonblock' = audioNonblock ]_vars

\* The commands that report success, given a payload.
Succeeding == { "INIT", "UNINIT", "UPDATE_SYSTEM_AV_INFO" }

InitPreCalls ==
    << << DRIVER_AUDIO, "FIND_DRIVER" >>, << DRIVER_VIDEO, "FIND_DRIVER" >>,
       << DRIVER_INPUT, "FIND_DRIVER" >>, << DRIVER_CAMERA, "FIND_DRIVER" >>,
       << DRIVER_LOCATION, "FIND_DRIVER" >>, << DRIVER_MENU, "FIND_DRIVER" >> >>

\* C20: whenever driver_ctl returns, its result is true exactly for INIT,
\* UNINIT and UPDATE_SYSTEM_AV_INFO given a non-null payload; DEINIT,
\* INIT_PRE, SET_REFRESH_RATE and SET_NONBLOCK_STATE return false having
\* done their work, and an unknown command returns false having done none.
C20_Result ==
    (~Idle /\ ~crashed) =>
        /\ ret = TRUE <=> (lastCmd.cmd \in Succeeding /\ lastCmd.data # NULL)
        /\ lastCmd.cmd = "DEINIT" => log = DeinitCalls
        /\ lastCmd.cmd = "INIT_PRE" => log = InitPreCalls
        /\ lastCmd.cmd = "SET_NONBLOCK_STATE" =>
              << DRIVER_AUDIO, "SET_NONBLOCKING_STATE", inputNonblock >>
                  \in Calls(log)
        /\ lastCmd.cmd = "SET_REFRESH_RATE" =>
              /\ << "video_monitor", "SET_REFRESH_RATE" >> \in Calls(log)
              /\ RateStep \in Calls(log)
        /\ lastCmd.cmd = "UNKNOWN" => log = << >>

\* C20 witness: SET_REFRESH_RATE has set the rate and re-derived the system
\* rates, and returned false.
C20_Witness ==
    /\ lastCmd = [cmd |-> "SET_REFRESH_RATE", data |-> { "75Hz" }]
    /\ ~crashed /\ ret = FALSE
    /\ refreshRate = { "75Hz" }
    /\ alloc[DRIVER_VIDEO] /\ alloc[DRIVER_AUDIO]
    /\ NonblockStep \in Calls(log)

-----------------------------------------------------------------------------
(* Finding and cycling drivers *)

\* The indices of the category's list.
Indices == 0 .. Len(registry) - 1

\* The enumerated name at index i.
NameAt(i) == registry[i + 1]

\* The first n characters of s, or all of s when it is shorter.
Prefix(s, n) == SubSeq(s, 1, IF Len(s) < n THEN Len(s) ELSE n)

\* The indices where the enumeration ends or the name matches.
Stops ==
    { i \in Indices :
        string_is_empty(NameAt(i)) \/ strcasecmp_eq(NameAt(i), name) }

\* What index_of returns: the first index that matches the name, unless an
\* empty name is enumerated first or at that very index, the list runs out,
\* or the label is unknown.
IndexOf ==
    IF label \notin KnownLabels \/ Stops = {} THEN -1
    ELSE LET i == CHOOSE k \in Stops : \A j \in Stops : k <= j
         IN  IF string_is_empty(NameAt(i)) THEN -1 ELSE i

\* C18: find_driver_index returns the smallest index whose name equals the
\* given name without regard to case and below which no name is empty; it
\* returns -1 when an empty name or the end of the list comes before any
\* match, or the label is unknown.  It changes neither the name nor any
\* lifecycle state.
C18_IndexOf ==
    [][ selOp' = "index" =>
          /\ selIdx' = IndexOf
          /\ UNCHANGED << name, label, registry, lifeVars >> ]_vars

\* C18: a name written in another case is found behind another driver.
C18_Witness ==
    /\ selOp = "index"
    /\ selIdx > 0
    /\ \A i \in Indices : NameAt(i) # name

\* C15 (as stated): find_prev_driver fails and leaves the name as it was
\* when the name is at index 0 or not found; at an index i > 0 it succeeds
\* and the name becomes the enumerated name at i - 1.
C15_PreviousName ==
    [][ selOp' = "prev" =>
          LET i == find_driver_index(label, name)
          IN  IF i > 0
              THEN selRet' /\ name' = NameAt(i - 1)
              ELSE ~selRet' /\ name' = name ]_vars

\* C15 (amended): at an index i > 0 the name becomes the enumerated name at
\* i - 1 cut to the len - 1 characters the caller's buffer holds.
C15_PreviousNameCut ==
    [][ selOp' = "prev" =>
          LET i == find_driver_index(label, name)
          IN  IF i > 0
              THEN selRet' /\ name' = Prefix(NameAt(i - 1), len - 1)
              ELSE ~selRet' /\ name' = name ]_vars

\* C15: find_prev_driver succeeded and the previous name did not fit.
C15_Witness ==
    /\ selOp = "prev"
    /\ selRet
    /\ Len(name) = len - 1
    /\ \E i \in Indices :
          Len(NameAt(i)) > Len(name) /\ name = Prefix(NameAt(i), len - 1)

\* C17 (as stated, a name longer than the caller's buffer being allowed to
\* arrive cut): find_next_driver succeeds exactly when the name is found at
\* some index i and is not the sentinel; the name is then replaced by the
\* name of an existing backend at i + 1; in every other case it fails and
\* the name is as it was.
C17_NextName ==
    [][ selOp' = "next" =>
          LET i == find_driver_index(label, name)
          IN  IF i >= 0 /\ name # Sentinel
              THEN /\ selRet'
                   /\ i + 1 \in Indices
                   /\ name' = Prefix(NameAt(i + 1), len - 1)
              ELSE ~selRet' /\ name' = name ]_vars

\* The names enumerated behind the sentinel.
BeyondSentinel ==
    { NameAt(j) : j \in { k \in Indices :
                            \E i \in Indices : i < k /\ NameAt(i) = Sentinel } }

\* C16 (as stated): from a name found in the list, a find_next_driver on the
\* sentinel fails and leaves the sentinel selected, and no find_next_driver
\* leaves an empty name or a name from behind the sentinel.
C16_NeverPastSentinel ==
    [][ (fromFound /\ selOp' = "next") =>
          /\ name = Sentinel => (~selRet' /\ name' = Sentinel)
          /\ ~string_is_empty(name')
          /\ name' \notin BeyondSentinel ]_vars

=============================================================================
